---------------------------- MODULE Spec2Model ----------------------------
(***************************************************************************)
(* A model of the data merger, the scoring engine and the tide-series      *)
(* builder of FixedSurfDashboard (src/surf_dashboard3.py).                 *)
(*                                                                         *)
(* Python values are embedded as tagged records [type, val]: the type tag  *)
(* decides truthiness, what a subscript does and which exception an        *)
(* ill-typed operation raises.  Wave heights are counted in half feet      *)
(* (HalfFt converts the source's literals), wind speeds in whole units,    *)
(* tide heights in tenths.                                                 *)
(***************************************************************************)
EXTENDS Integers, Sequences, FiniteSets, TLC

VARIABLES
    pc,                  \* position of the running call
    exc,                 \* the exception that left the call, or "none"
    result,              \* the value the call returned
    user_prefs,          \* argument of calculate_surf_score / recommend_surf_spots
    combined_data,       \* argument of calculate_surf_score
    current_wave_height, \* local of calculate_surf_score
    current_wind_speed,  \* local of calculate_surf_score
    score,               \* local of calculate_surf_score
    spots_data,          \* argument of recommend_surf_spots
    heap,                \* the dict objects of combine_marine_weather_data, by address
    entry_heap,          \* the heap as it was when the call was entered
    marine_data,         \* argument of combine_marine_weather_data
    weather_data,        \* argument of combine_marine_weather_data
    combined,            \* local combined_data of combine_marine_weather_data
    key_i,               \* position of the loop over the wind keys
    tide_data,           \* argument of create_tide_chart
    times,               \* local of create_tide_chart
    heights,             \* local of create_tide_chart
    p_i,                 \* position of the loop over the predictions
    data_matrix,         \* local of create_wave_height_heatmap
    spot_names,          \* local of create_wave_height_heatmap
    time_labels,         \* local of create_wave_height_heatmap
    s_i,                 \* position of the loops over spots_data.items()
    wind_directions,     \* local of create_wind_rose_diagram
    wind_speeds,         \* local of create_wind_rose_diagram
    valid_data           \* local of create_wind_rose_diagram

scoreVars == <<user_prefs, combined_data, current_wave_height, current_wind_speed, score>>

recVars == <<spots_data>>

mergeVars == <<heap, entry_heap, marine_data, weather_data, combined, key_i>>

tideVars == <<tide_data, times, heights, p_i>>

heatVars == <<data_matrix, spot_names, time_labels, s_i>>

windVars == <<wind_directions, wind_speeds, valid_data>>

vars == <<pc, exc, result, scoreVars, recVars, mergeVars, tideVars, heatVars, windVars>>

-----------------------------------------------------------------------------
(* Bounds *)

MaxLen == 1        \* longest hourly series drawn as an input
MaxHalfFt == 13    \* largest wave height drawn, in half feet (6.5 ft)
MaxWind == 16      \* largest wind speed drawn
MaxPresent == 2    \* most entries of a spots_data mapping drawn
MaxPred == 2       \* most tide predictions drawn
MaxSamples == 25   \* longest series drawn for the 24-hour builders

-----------------------------------------------------------------------------
(* Python values *)

None == [type |-> "NoneType", val |-> 0]
Num(n) == [type |-> "number", val |-> n]
Str(s) == [type |-> "str", val |-> s]
List(s) == [type |-> "list", val |-> s]
Dict(f) == [type |-> "dict", val |-> f]

\* a variable that the running call does not use
Unused == [type |-> "unused", val |-> 0]

\* the variables of combine_marine_weather_data while another call runs
MergeIdle ==
    /\ heap = Unused
    /\ entry_heap = Unused
    /\ marine_data = Unused
    /\ weather_data = Unused
    /\ combined = Unused
    /\ key_i = 0

\* the variables of create_tide_chart while another call runs
TideIdle ==
    /\ tide_data = Unused
    /\ times = Unused
    /\ heights = Unused
    /\ p_i = 0

\* the variables of create_wave_height_heatmap while another call runs
HeatIdle ==
    /\ data_matrix = Unused
    /\ spot_names = Unused
    /\ time_labels = Unused
    /\ s_i = 0

\* the variables of create_wind_rose_diagram while another call runs
WindIdle ==
    /\ wind_directions = Unused
    /\ wind_speeds = Unused
    /\ valid_data = Unused

\* the dict holding the given set of <<key, value>> pairs
DictOf(pairs) ==
    Dict([k \in {p[1] : p \in pairs} |-> (CHOOSE p \in pairs : p[1] = k)[2]])

\* bool(x)
Truthy(x) ==
    CASE x.type = "NoneType" -> FALSE
      [] x.type = "dict" -> DOMAIN x.val # {}
      [] x.type = "list" -> Len(x.val) > 0
      [] x.type = "str" -> x.val # ""
      [] x.type = "number" -> x.val # 0
      [] OTHER -> TRUE

\* key in x, for a dict x
Contains(x, key) == x.type = "dict" /\ key \in DOMAIN x.val

\* the outcome of evaluating an expression: a value or a raised exception
Ok(v) == [exc |-> "none", val |-> v]
Raise(e) == [exc |-> e, val |-> None]

\* evaluate F on the value of o unless o raised
Bind(o, F(_)) == IF o.exc # "none" THEN o ELSE F(o.val)

\* x[key] for a string key
GetKey(x, key) ==
    CASE x.type = "dict" ->
           IF key \in DOMAIN x.val THEN Ok(x.val[key]) ELSE Raise("KeyError")
      [] OTHER -> Raise("TypeError")

\* x[i] for an integer i >= 0 and a list, dict, number or None x
GetIndex(x, i) ==
    CASE x.type = "list" ->
           IF i < Len(x.val) THEN Ok(x.val[i + 1]) ELSE Raise("IndexError")
      [] x.type = "dict" -> Raise("KeyError")
      [] OTHER -> Raise("TypeError")

\* x.get(key, default)
DictGet(x, key, default) ==
    IF x.type = "dict"
    THEN Ok(IF key \in DOMAIN x.val THEN x.val[key] ELSE default)
    ELSE Raise("AttributeError")

\* an ordering comparison with a number is defined for numbers only
IsNumber(x) == x.type = "number"

\* a literal of the source in feet, as half feet
HalfFt(n) == 2 * n

-----------------------------------------------------------------------------
(* Inputs of calculate_surf_score *)

Skills == {"Low", "Medium", "High"}
Boards == {"Longboard", "Funboard", "Shortboard", "SUP", "Gun"}
BreakPrefs == {"Any", "Beach Break", "Point Break", "Reef Break"}

Prefs(skill, board, brk) ==
    Dict([skill_level |-> Str(skill), board_length |-> Str(board),
          break_type |-> Str(brk)])

WaveSamples == {Num(h) : h \in 0..MaxHalfFt} \cup {None, Str("n/a")}
WindSamples == {Num(w) : w \in 8..MaxWind} \cup {None, Str("n/a")}

SeriesOver(S) == {List(s) : s \in UNION {[1..n -> S] : n \in 0..MaxLen}}

\* a metric of the hourly section: missing, null or a series
MetricEntries(key, S) ==
    {{}} \cup {{<<key, m>>} : m \in SeriesOver(S) \cup {None}}

HourlySections ==
    {DictOf(wv \cup wd) : wv \in MetricEntries("wave_height", WaveSamples),
                          wd \in MetricEntries("wind_speed_10m", WindSamples)}

ScoreRecords ==
    {None, Dict(<<>>), DictOf({<<"daily", Dict(<<>>)>>}),
     DictOf({<<"hourly", None>>})}
    \cup {DictOf({<<"hourly", h>>}) : h \in HourlySections}

ScorePrefs == {Prefs(s, "Funboard", "Any") : s \in Skills}

-----------------------------------------------------------------------------
(* calculate_surf_score *)

CaughtWithoutTypeError == {"KeyError", "IndexError"}

\* the exceptions the handler of calculate_surf_score turns into score 0
CaughtExceptions == {"KeyError", "IndexError", "TypeError"}

\* combined_data['hourly']['wave_height'][0]
ReadWaveHeight(data) ==
    Bind(Bind(GetKey(data, "hourly"), LAMBDA h : GetKey(h, "wave_height")),
         LAMBDA s : GetIndex(s, 0))

\* combined_data['hourly'].get('wind_speed_10m', [None])[0]
ReadWindSpeed(data) ==
    Bind(Bind(GetKey(data, "hourly"),
              LAMBDA h : DictGet(h, "wind_speed_10m", List(<<None>>))),
         LAMBDA s : GetIndex(s, 0))

WaveScoreLowBelowThree(prefs, h) ==
    LET skill == GetKey(prefs, "skill_level") IN
    IF skill.exc # "none" THEN skill
    ELSE IF ~IsNumber(h) THEN Raise("TypeError")
    ELSE IF skill.val = Str("Low") THEN
           IF HalfFt(1) <= h.val /\ h.val < HalfFt(3) THEN Ok(40)
           ELSE IF h.val < HalfFt(1) THEN Ok(20)
           ELSE Ok(0)
    ELSE IF skill.val = Str("Medium") THEN
           IF HalfFt(2) <= h.val /\ h.val <= HalfFt(6) THEN Ok(40)
           ELSE IF HalfFt(1) <= h.val /\ h.val < HalfFt(2) THEN Ok(25)
           ELSE Ok(0)
    ELSE   IF h.val >= HalfFt(4) THEN Ok(40)
           ELSE IF HalfFt(2) <= h.val /\ h.val < HalfFt(4) THEN Ok(30)
           ELSE Ok(0)

\* the wave-height tiers by skill level
WaveScore(prefs, h) ==
    LET skill == GetKey(prefs, "skill_level") IN
    IF skill.exc # "none" THEN skill
    ELSE IF ~IsNumber(h) THEN Raise("TypeError")
    ELSE IF skill.val = Str("Low") THEN
           IF HalfFt(1) <= h.val /\ h.val <= HalfFt(3) THEN Ok(40)
           ELSE IF h.val < HalfFt(1) THEN Ok(20)
           ELSE Ok(0)
    ELSE IF skill.val = Str("Medium") THEN
           IF HalfFt(2) <= h.val /\ h.val <= HalfFt(6) THEN Ok(40)
           ELSE IF HalfFt(1) <= h.val /\ h.val < HalfFt(2) THEN Ok(25)
           ELSE Ok(0)
    ELSE   IF h.val >= HalfFt(4) THEN Ok(40)
           ELSE IF HalfFt(2) <= h.val /\ h.val < HalfFt(4) THEN Ok(30)
           ELSE Ok(0)

WindScoreNoNeutral(w) ==
    IF w # None THEN
        IF ~IsNumber(w) THEN Raise("TypeError")
        ELSE IF w.val < 10 THEN Ok(30)
        ELSE IF w.val < 15 THEN Ok(20)
        ELSE Ok(5)
    ELSE Ok(0)

\* the wind tiers
WindScore(w) ==
    IF w # None THEN
        IF ~IsNumber(w) THEN Raise("TypeError")
        ELSE IF w.val < 10 THEN Ok(30)
        ELSE IF w.val < 15 THEN Ok(20)
        ELSE Ok(5)
    ELSE Ok(15)

\* min(score, 100)
Clamp(s) == IF s < 100 THEN s ELSE 100

\* the try block: the value it returns or the exception it raises
ScoreBody(data, prefs) ==
    Bind(ReadWaveHeight(data), LAMBDA h :
    Bind(ReadWindSpeed(data), LAMBDA w :
    Bind(WaveScore(prefs, h), LAMBDA a :
    Bind(WindScore(w), LAMBDA b : Ok(Clamp(a + b + 10))))))

\* calculate_surf_score as a function of its arguments
CalculateSurfScore(data, prefs) ==
    IF ~Truthy(data) \/ ~Contains(data, "hourly") THEN Ok(0)
    ELSE LET r == ScoreBody(data, prefs) IN
         IF r.exc \in CaughtExceptions THEN Ok(0) ELSE r

\* leave the try block with exception e
ScoreExcept(e) ==
    IF e \in CaughtExceptions
    THEN pc' = "done" /\ result' = Num(0) /\ exc' = "none"
    ELSE pc' = "raised" /\ result' = result /\ exc' = e

ScoreGuard ==
    /\ pc = "score_guard"
    /\ IF ~Truthy(combined_data) \/ ~Contains(combined_data, "hourly")
       THEN pc' = "done" /\ result' = Num(0)
       ELSE pc' = "score_read" /\ result' = result
    /\ UNCHANGED <<exc, scoreVars, recVars, mergeVars, tideVars, heatVars, windVars>>

ScoreRead ==
    /\ pc = "score_read"
    /\ LET h == ReadWaveHeight(combined_data)
           w == ReadWindSpeed(combined_data) IN
       IF h.exc # "none" THEN
           ScoreExcept(h.exc) /\ UNCHANGED <<scoreVars, recVars, mergeVars, tideVars, heatVars, windVars>>
       ELSE IF w.exc # "none" THEN
           /\ ScoreExcept(w.exc)
           /\ current_wave_height' = h.val
           /\ UNCHANGED <<user_prefs, combined_data, current_wind_speed, score, recVars, mergeVars, tideVars, heatVars, windVars>>
       ELSE
           /\ current_wave_height' = h.val
           /\ current_wind_speed' = w.val
           /\ score' = 0
           /\ pc' = "score_wave"
           /\ UNCHANGED <<exc, result, user_prefs, combined_data, recVars, mergeVars, tideVars, heatVars, windVars>>

ScoreWave ==
    /\ pc = "score_wave"
    /\ LET a == WaveScore(user_prefs, current_wave_height) IN
       IF a.exc # "none" THEN ScoreExcept(a.exc) /\ UNCHANGED <<scoreVars, recVars, mergeVars, tideVars, heatVars, windVars>>
       ELSE /\ score' = score + a.val
            /\ pc' = "score_wind"
            /\ UNCHANGED <<exc, result, user_prefs, combined_data,
                           current_wave_height, current_wind_speed, recVars, mergeVars, tideVars, heatVars, windVars>>

ScoreWind ==
    /\ pc = "score_wind"
    /\ LET b == WindScore(current_wind_speed) IN
       IF b.exc # "none" THEN ScoreExcept(b.exc) /\ UNCHANGED <<scoreVars, recVars, mergeVars, tideVars, heatVars, windVars>>
       ELSE /\ score' = score + b.val
            /\ pc' = "score_return"
            /\ UNCHANGED <<exc, result, user_prefs, combined_data,
                           current_wave_height, current_wind_speed, recVars, mergeVars, tideVars, heatVars, windVars>>

ScoreReturn ==
    /\ pc = "score_return"
    /\ result' = Num(Clamp(score + 10))
    /\ pc' = "done"
    /\ UNCHANGED <<exc, scoreVars, recVars, mergeVars, tideVars, heatVars, windVars>>

InitScore ==
    /\ pc = "score_guard"
    /\ exc = "none"
    /\ result = Unused
    /\ user_prefs \in ScorePrefs
    /\ combined_data \in ScoreRecords
    /\ current_wave_height = Unused
    /\ current_wind_speed = Unused
    /\ score = 0
    /\ spots_data = Unused
    /\ MergeIdle
    /\ TideIdle
    /\ HeatIdle
    /\ WindIdle

NextScore == ScoreGuard \/ ScoreRead \/ ScoreWave \/ ScoreWind \/ ScoreReturn

SpecScore == InitScore /\ [][NextScore]_vars

-----------------------------------------------------------------------------
(* recommend_surf_spots *)

\* the registry, in insertion order
SD_SURF_SPOTS == <<
    [name |-> "Ocean Beach", break_type |-> "Beach Break", skill_level |-> "Medium",
     ideal_boards |-> {"Shortboard", "Funboard"},
     description |-> "Powerful beach break with consistent waves"],
    [name |-> "Mission Beach", break_type |-> "Beach Break", skill_level |-> "Low",
     ideal_boards |-> {"Longboard", "Funboard"},
     description |-> "Gentle beach break, great for beginners"],
    [name |-> "Pacific Beach", break_type |-> "Beach Break", skill_level |-> "Medium",
     ideal_boards |-> {"Shortboard", "Funboard"},
     description |-> "Popular beach break with varied conditions"],
    [name |-> "La Jolla Shores", break_type |-> "Beach Break", skill_level |-> "Low",
     ideal_boards |-> {"Longboard", "SUP"},
     description |-> "Protected cove, perfect for learning"],
    [name |-> "Blacks Beach", break_type |-> "Beach Break", skill_level |-> "High",
     ideal_boards |-> {"Shortboard", "Gun"},
     description |-> "Powerful waves, advanced surfers only"],
    [name |-> "Swamis", break_type |-> "Point Break", skill_level |-> "Medium",
     ideal_boards |-> {"Longboard", "Funboard"},
     description |-> "Classic point break with long rides"],
    [name |-> "Cardiff Reef", break_type |-> "Reef Break", skill_level |-> "High",
     ideal_boards |-> {"Shortboard", "Funboard"},
     description |-> "Consistent reef break with quality waves"] >>

SpotNames == {SD_SURF_SPOTS[i].name : i \in DOMAIN SD_SURF_SPOTS}

CompositeScoreClamped(surf_score, break_match, board_match, skill_match) ==
    Clamp(surf_score + (IF break_match THEN 20 ELSE 0)
                     + (IF board_match THEN 15 ELSE 0)
                     + (IF skill_match THEN 25 ELSE 0))

\* rec_score: the surf score plus the bonus of each match
CompositeScore(surf_score, break_match, board_match, skill_match) ==
    surf_score + (IF break_match THEN 20 ELSE 0)
               + (IF board_match THEN 15 ELSE 0)
               + (IF skill_match THEN 25 ELSE 0)

\* one pass of the loop body: the recommendation of one registered spot
\* (the outcome raises if calculate_surf_score does)
Recommendation(spot_info, prefs, data) ==
    LET record == DictGet(data, spot_info.name, None).val
        break_match == \/ prefs.val.break_type = Str("Any")
                       \/ Str(spot_info.break_type) = prefs.val.break_type
        board_match == prefs.val.board_length.val \in spot_info.ideal_boards
        surf == CalculateSurfScore(record, prefs)
        skill_match == prefs.val.skill_level = Str(spot_info.skill_level)
        rec_score == CompositeScore(surf.val, break_match, board_match, skill_match)
    IN  IF surf.exc # "none" THEN surf
        ELSE Ok([spot |-> spot_info.name,
                 score |-> rec_score,
                 surf_score |-> surf.val,
                 break_type |-> spot_info.break_type,
                 skill_level |-> spot_info.skill_level,
                 description |-> spot_info.description,
                 break_match |-> break_match,
                 board_match |-> board_match,
                 skill_match |-> skill_match])

RecommendationsOfPresent(prefs, data) ==
    LET present == SelectSeq(SD_SURF_SPOTS, LAMBDA sp : sp.name \in DOMAIN data.val)
    IN  [i \in DOMAIN present |-> Recommendation(present[i], prefs, data)]

\* the list the loop appends to, one outcome per registered spot
Recommendations(prefs, data) ==
    [i \in DOMAIN SD_SURF_SPOTS |-> Recommendation(SD_SURF_SPOTS[i], prefs, data)]

InsertPointBeforeTies(s, r) == Cardinality({i \in DOMAIN s : s[i].score > r.score})

\* where a stable descending sort puts r among the already sorted s: after
\* every element whose key is at least r's
InsertPoint(s, r) == Cardinality({i \in DOMAIN s : s[i].score >= r.score})

\* sorted(recs, key=score, reverse=True): a stable sort
RECURSIVE SortedByScore(_)
SortedByScore(recs) ==
    IF recs = <<>> THEN <<>>
    ELSE LET s == SortedByScore(SubSeq(recs, 1, Len(recs) - 1))
             r == recs[Len(recs)]
             k == InsertPoint(s, r)
         IN  SubSeq(s, 1, k) \o <<r>> \o SubSeq(s, k + 1, Len(s))

RecommendSurfSpots ==
    /\ pc = "recommend"
    /\ LET outs == Recommendations(user_prefs, spots_data)
           failed == {i \in DOMAIN outs : outs[i].exc # "none"}
       IN  IF failed # {}
           THEN /\ pc' = "raised"
                /\ exc' = outs[CHOOSE i \in failed : \A j \in failed : i <= j].exc
                /\ result' = result
           ELSE /\ pc' = "done"
                /\ exc' = exc
                /\ result' = List(SortedByScore([i \in DOMAIN outs |-> outs[i].val]))
    /\ UNCHANGED <<scoreVars, recVars, mergeVars, tideVars, heatVars, windVars>>

\* a record of 3.0 ft waves in wind 8
ScenarioRecord ==
    DictOf({<<"hourly", DictOf({<<"wave_height", List(<<Num(HalfFt(3))>>)>>,
                                <<"wind_speed_10m", List(<<Num(8)>>)>>})>>})

\* a record of 0.5 ft waves in wind 15
SmallSurfRecord ==
    DictOf({<<"hourly", DictOf({<<"wave_height", List(<<Num(1)>>)>>,
                                <<"wind_speed_10m", List(<<Num(15)>>)>>})>>})

\* the values an entry of spots_data is drawn from
RecChoices == {None, ScenarioRecord, SmallSurfRecord}

\* a name the registry does not hold
Unregistered == "Trestles"

\* every mapping with at most MaxPresent entries
SpotsData ==
    UNION {{Dict(f) : f \in [keys -> RecChoices]} :
           keys \in {k \in SUBSET (SpotNames \cup {Unregistered}) :
                       Cardinality(k) <= MaxPresent}}

RecPrefs == {Prefs(s, b, k) : s \in Skills, b \in Boards, k \in BreakPrefs}

InitRec ==
    /\ pc = "recommend"
    /\ exc = "none"
    /\ result = Unused
    /\ user_prefs \in RecPrefs
    /\ spots_data \in SpotsData
    /\ combined_data = Unused
    /\ current_wave_height = Unused
    /\ current_wind_speed = Unused
    /\ score = 0
    /\ MergeIdle
    /\ TideIdle
    /\ HeatIdle
    /\ WindIdle

NextRec == RecommendSurfSpots

SpecRec == InitRec /\ [][NextRec]_vars

-----------------------------------------------------------------------------
(* combine_marine_weather_data *)

\* A dict is an object on the heap; a variable or a dict entry holds a
\* reference to it.  Only the records and their hourly sections are objects
\* here: nothing else is written to.
Ref(a) == [type |-> "ref", val |-> a]

Addrs == {"marine", "marine.hourly", "weather", "weather.hourly",
          "combined", "combined.hourly"}

\* d with d[k] = v
SetItem(d, k, v) ==
    Dict([x \in DOMAIN d.val \cup {k} |-> IF x = k THEN v ELSE d.val[x]])

\* bool(x) for a variable holding None or a reference to a dict
TruthyAt(h, x) == x # None /\ Truthy(h[x.val])

OnlyMarineNone(h, marine) == marine = None

\* `not marine_data`
MarineMissing(h, marine) == ~TruthyAt(h, marine)

WindAndTemperature == <<"wind_speed_10m", "wind_direction_10m", "temperature_2m">>

\* the keys copied from the weather record
WindKeys == <<"wind_speed_10m", "wind_direction_10m", "wind_gusts_10m">>

MergeGuard ==
    /\ pc = "merge_guard"
    /\ IF MarineMissing(heap, marine_data)
       THEN pc' = "done" /\ result' = None
       ELSE pc' = "merge_copy" /\ result' = result
    /\ UNCHANGED <<exc, scoreVars, recVars, mergeVars, tideVars, heatVars, windVars>>

\* combined_data = marine_data.copy(): a new dict holding the same entries,
\* the reference to the hourly section among them
MergeCopy ==
    /\ pc = "merge_copy"
    /\ heap' = [heap EXCEPT !["combined"] = heap[marine_data.val]]
    /\ combined' = Ref("combined")
    /\ pc' = "merge_hourly"
    /\ UNCHANGED <<exc, result, entry_heap, marine_data, weather_data, key_i,
                   scoreVars, recVars, tideVars, heatVars, windVars>>

MergeHourly ==
    /\ pc = "merge_hourly"
    /\ IF TruthyAt(heap, weather_data) /\ Contains(heap[weather_data.val], "hourly")
       THEN /\ pc' = "merge_key"
            /\ key_i' = 1
            /\ IF ~Contains(heap[combined.val], "hourly")
               THEN heap' = [heap EXCEPT
                        !["combined.hourly"] = Dict(<<>>),
                        ![combined.val] = SetItem(@, "hourly", Ref("combined.hourly"))]
               ELSE heap' = heap
       ELSE pc' = "merge_return" /\ key_i' = key_i /\ heap' = heap
    /\ UNCHANGED <<exc, result, entry_heap, marine_data, weather_data, combined,
                   scoreVars, recVars, tideVars, heatVars, windVars>>

\* one pass of the loop over the wind keys
MergeKey ==
    /\ pc = "merge_key"
    /\ LET key == WindKeys[key_i]
           source == heap[heap[weather_data.val].val.hourly.val]
           target == heap[combined.val].val.hourly.val
       IN  IF Contains(source, key)
           THEN heap' = [heap EXCEPT ![target] = SetItem(@, key, source.val[key])]
           ELSE heap' = heap
    /\ IF key_i < Len(WindKeys)
       THEN key_i' = key_i + 1 /\ pc' = pc
       ELSE key_i' = key_i /\ pc' = "merge_return"
    /\ UNCHANGED <<exc, result, entry_heap, marine_data, weather_data, combined,
                   scoreVars, recVars, tideVars, heatVars, windVars>>

MergeReturn ==
    /\ pc = "merge_return"
    /\ result' = combined
    /\ pc' = "done"
    /\ UNCHANGED <<exc, scoreVars, recVars, mergeVars, tideVars, heatVars, windVars>>

\* the series a source delivers for a metric
MarineSeries(key) ==
    IF key = "wave_height" THEN List(<<Num(HalfFt(3))>>) ELSE List(<<Num(7)>>)
WeatherSeries(key) ==
    CASE key = "wind_speed_10m" -> List(<<Num(12)>>)
      [] key = "wind_direction_10m" -> List(<<Num(270)>>)
      [] key = "wind_gusts_10m" -> List(<<Num(18)>>)
      [] OTHER -> List(<<Num(20)>>)

MarineMetrics == {"wave_height", "wind_speed_10m"}
WeatherMetrics == {"wind_speed_10m", "wind_direction_10m", "wind_gusts_10m",
                   "temperature_2m"}

\* the heaps holding a record at address a: no sections, or any of a daily
\* section and an hourly section with any of the metrics
RecordHeaps(a, metrics, series(_), daily) ==
    {[x \in {a, a \o ".hourly"} |->
        IF x = a
        THEN DictOf((IF hasDaily THEN {<<"daily", daily>>} ELSE {})
                    \cup (IF hasHourly THEN {<<"hourly", Ref(a \o ".hourly")>>} ELSE {}))
        ELSE IF hasHourly THEN Dict([k \in ms |-> series(k)]) ELSE Unused] :
     hasDaily \in BOOLEAN, hasHourly \in BOOLEAN,
     ms \in SUBSET metrics}

MarineDaily == DictOf({<<"wave_height_max", List(<<Num(HalfFt(4))>>)>>})
WeatherDaily == DictOf({<<"wind_speed_10m_max", List(<<Num(20)>>)>>})

InitMerge ==
    /\ pc = "merge_guard"
    /\ exc = "none"
    /\ result = Unused
    /\ \E present \in BOOLEAN \X BOOLEAN :
       \E mh \in RecordHeaps("marine", MarineMetrics, MarineSeries, MarineDaily),
          wh \in RecordHeaps("weather", WeatherMetrics, WeatherSeries, WeatherDaily) :
          /\ marine_data = IF present[1] THEN Ref("marine") ELSE None
          /\ weather_data = IF present[2] THEN Ref("weather") ELSE None
          /\ heap = [x \in Addrs |->
                       CASE x \in {"marine", "marine.hourly"} ->
                              IF present[1] THEN mh[x] ELSE Unused
                         [] x \in {"weather", "weather.hourly"} ->
                              IF present[2] THEN wh[x] ELSE Unused
                         [] OTHER -> Unused]
    /\ entry_heap = heap
    /\ combined = Unused
    /\ key_i = 0
    /\ user_prefs = Unused
    /\ combined_data = Unused
    /\ current_wave_height = Unused
    /\ current_wind_speed = Unused
    /\ score = 0
    /\ spots_data = Unused
    /\ TideIdle
    /\ HeatIdle
    /\ WindIdle

NextMerge == MergeGuard \/ MergeCopy \/ MergeHourly \/ MergeKey \/ MergeReturn

SpecMerge == InitMerge /\ [][NextMerge]_vars

-----------------------------------------------------------------------------
(* create_tide_chart *)

\* datetime.strptime(x, '%Y-%m-%d %H:%M'): the minutes since 2024-01-01 00:00
\* of the strings drawn here that have the format
StrpTime(x) ==
    IF x.type # "str" THEN Raise("TypeError")
    ELSE CASE x.val = "2024-01-01 00:00" -> Ok([type |-> "datetime", val |-> 0])
           [] x.val = "2024-01-01 01:00" -> Ok([type |-> "datetime", val |-> 60])
           [] OTHER -> Raise("ValueError")

\* float(x), in tenths
Float(x) ==
    IF x.type # "str" THEN Raise("TypeError")
    ELSE CASE x.val = "3.2" -> Ok(Num(32))
           [] x.val = "3.5" -> Ok(Num(35))
           [] OTHER -> Raise("ValueError")

\* the exceptions that make the loop skip to the next prediction
TideCaught == {"ValueError", "KeyError"}

TideGuard ==
    /\ pc = "tide_guard"
    /\ IF ~Truthy(tide_data) \/ ~Contains(tide_data, "predictions")
       THEN /\ pc' = "done"
            /\ result' = None
            /\ UNCHANGED tideVars
       ELSE /\ pc' = IF Len(tide_data.val.predictions.val) > 0
                     THEN "tide_entry" ELSE "tide_finish"
            /\ result' = result
            /\ times' = List(<<>>)
            /\ heights' = List(<<>>)
            /\ p_i' = 1
            /\ UNCHANGED tide_data
    /\ UNCHANGED <<exc, scoreVars, recVars, mergeVars, heatVars, windVars>>

\* one pass of the loop: both appends, or the part of them done before an
\* exception left the try block
TideEntry ==
    /\ pc = "tide_entry"
    /\ LET p == tide_data.val.predictions.val[p_i]
           t == Bind(GetKey(p, "t"), StrpTime)
           v == Bind(GetKey(p, "v"), Float)
           left == IF t.exc # "none" THEN t.exc ELSE v.exc
           next == IF p_i < Len(tide_data.val.predictions.val)
                   THEN "tide_entry" ELSE "tide_finish"
       IN  /\ times' = IF t.exc = "none" THEN List(Append(times.val, t.val)) ELSE times
           /\ heights' = IF t.exc = "none" /\ v.exc = "none"
                         THEN List(Append(heights.val, v.val)) ELSE heights
           /\ IF left = "none" \/ left \in TideCaught
              THEN pc' = next /\ exc' = exc /\ p_i' = p_i + 1
              ELSE pc' = "raised" /\ exc' = left /\ p_i' = p_i
    /\ UNCHANGED <<result, tide_data, scoreVars, recVars, mergeVars, heatVars, windVars>>

\* `if not times: return None`, else the figure over times and heights
TideFinish ==
    /\ pc = "tide_finish"
    /\ result' = IF ~Truthy(times) THEN None
                 ELSE [type |-> "figure", val |-> [x |-> times, y |-> heights]]
    /\ pc' = "done"
    /\ UNCHANGED <<exc, tideVars, scoreVars, recVars, mergeVars, heatVars, windVars>>

TimeFields == {Str("2024-01-01 00:00"), Str("2024-01-01 01:00"), Str("bad"), None}
ValueFields == {Str("3.2"), Str("3.5"), Str("x"), None}

\* a prediction entry: each of 't' and 'v' missing or present
Predictions ==
    {DictOf(t \cup v) : t \in {{}} \cup {{<<"t", x>>} : x \in TimeFields},
                        v \in {{}} \cup {{<<"v", x>>} : x \in ValueFields}}

TideResponses ==
    {None, Dict(<<>>), DictOf({<<"error", Str("No Predictions data was found")>>})}
    \cup {DictOf({<<"predictions", List(ps)>>}) :
            ps \in UNION {[1..n -> Predictions] : n \in 0..MaxPred}}

InitTide ==
    /\ pc = "tide_guard"
    /\ exc = "none"
    /\ result = Unused
    /\ tide_data \in TideResponses
    /\ times = Unused
    /\ heights = Unused
    /\ p_i = 0
    /\ user_prefs = Unused
    /\ combined_data = Unused
    /\ current_wave_height = Unused
    /\ current_wind_speed = Unused
    /\ score = 0
    /\ spots_data = Unused
    /\ MergeIdle
    /\ HeatIdle
    /\ WindIdle

NextTide == TideGuard \/ TideEntry \/ TideFinish

SpecTide == InitTide /\ [][NextTide]_vars

-----------------------------------------------------------------------------
(* create_wave_height_heatmap *)

\* the width of the 24-hour window
HeatCols == 24

Min(a, b) == IF a < b THEN a ELSE b

\* x[:n]
Slice(x, n) ==
    IF x.type = "list" THEN Ok(List(SubSeq(x.val, 1, Min(Len(x.val), n))))
    ELSE Raise("TypeError")

\* key in x
In(key, x) ==
    IF x.type = "dict" THEN Ok(key \in DOMAIN x.val) ELSE Raise("TypeError")

\* datetime.fromisoformat(t.replace('T', ' ')).strftime('%H:%M') for the
\* strings drawn here
IsoLabel(t) ==
    IF t.type # "str" THEN Raise("AttributeError")
    ELSE CASE t.val = "2024-01-01T00:00" -> Ok(Str("00:00"))
           [] t.val = "2024-01-01T01:00" -> Ok(Str("01:00"))
           [] OTHER -> Raise("ValueError")

\* the list comprehension over the time axis: the labels, or the exception
\* of the first element that has none
Labels(ts) ==
    LET outs == [i \in DOMAIN ts |-> IsoLabel(ts[i])]
        failed == {i \in DOMAIN outs : outs[i].exc # "none"}
    IN  IF failed # {}
        THEN outs[CHOOSE i \in failed : \A j \in failed : i <= j]
        ELSE Ok(List([i \in DOMAIN outs |-> outs[i].val]))

\* `data and 'hourly' in data and key in data['hourly']`
HasMetric(data, key) ==
    IF ~Truthy(data) \/ ~Contains(data, "hourly") THEN Ok(FALSE)
    ELSE In(key, data.val.hourly)

RECURSIVE PadFrom(_, _)
PadFrom(row, n) == IF Len(row) < n THEN PadFrom(Append(row, Num(0)), n) ELSE row

PadNothing(row) == row

\* `while len(wave_heights) < 24: wave_heights.append(0)`
Pad(row) == PadFrom(row, HeatCols)

\* spots_data.items(): the <<name, record>> pairs in insertion order
Items == spots_data.val

HeatGuard ==
    /\ pc = "heat_guard"
    /\ IF ~Truthy(spots_data)
       THEN /\ pc' = "done"
            /\ result' = None
            /\ UNCHANGED heatVars
       ELSE /\ pc' = "heat_labels"
            /\ result' = result
            /\ data_matrix' = List(<<>>)
            /\ spot_names' = List(<<>>)
            /\ time_labels' = List(<<>>)
            /\ s_i' = 1
    /\ UNCHANGED <<exc, scoreVars, recVars, mergeVars, tideVars, windVars>>

\* the first loop, up to its break, and the test that follows it
HeatLabels ==
    /\ pc = "heat_labels"
    /\ LET tests == [i \in DOMAIN Items |-> HasMetric(Items[i][2], "time")]
           stops == {i \in DOMAIN Items : tests[i].exc # "none" \/ tests[i].val = TRUE}
           at == CHOOSE i \in stops : \A j \in stops : i <= j
           labels == IF tests[at].exc # "none" THEN tests[at]
                     ELSE Bind(Slice(Items[at][2].val.hourly.val.time, HeatCols),
                               LAMBDA ts : Labels(ts.val))
       IN  IF stops = {}
           THEN pc' = "done" /\ result' = None /\ exc' = exc
                /\ time_labels' = time_labels
           ELSE IF labels.exc # "none"
           THEN pc' = "raised" /\ result' = result /\ exc' = labels.exc
                /\ time_labels' = time_labels
           ELSE IF ~Truthy(labels.val)
           THEN pc' = "done" /\ result' = None /\ exc' = exc
                /\ time_labels' = labels.val
           ELSE pc' = "heat_row" /\ result' = result /\ exc' = exc
                /\ time_labels' = labels.val
    /\ UNCHANGED <<data_matrix, spot_names, s_i,
                   scoreVars, recVars, mergeVars, tideVars, windVars>>

\* one pass of the second loop
HeatRow ==
    /\ pc = "heat_row"
    /\ LET spot_name == Items[s_i][1]
           data == Items[s_i][2]
           has == HasMetric(data, "wave_height")
           wave_heights == Bind(has, LAMBDA b :
                              IF b THEN Slice(data.val.hourly.val.wave_height, HeatCols)
                              ELSE Ok(None))
           next == IF s_i < Len(Items) THEN "heat_row" ELSE "heat_finish"
       IN  IF wave_heights.exc # "none"
           THEN /\ pc' = "raised"
                /\ exc' = wave_heights.exc
                /\ UNCHANGED <<data_matrix, spot_names, s_i>>
           ELSE /\ pc' = next
                /\ exc' = exc
                /\ s_i' = s_i + 1
                /\ IF has.val
                   THEN /\ data_matrix' = List(Append(data_matrix.val,
                               Slice(List(Pad(wave_heights.val.val)), HeatCols).val))
                        /\ spot_names' = List(Append(spot_names.val, Str(spot_name)))
                   ELSE UNCHANGED <<data_matrix, spot_names>>
    /\ UNCHANGED <<result, time_labels, scoreVars, recVars, mergeVars, tideVars, windVars>>

\* `if not data_matrix: return None`, else the figure over the grid
HeatFinish ==
    /\ pc = "heat_finish"
    /\ result' = IF ~Truthy(data_matrix) THEN None
                 ELSE [type |-> "figure",
                       val |-> [img |-> data_matrix, x |-> time_labels, y |-> spot_names]]
    /\ pc' = "done"
    /\ UNCHANGED <<exc, heatVars, scoreVars, recVars, mergeVars, tideVars, windVars>>

\* the series lengths drawn: none, the 10 samples of a short forecast, and
\* those around the window
SeriesLens == {n \in 0..MaxSamples : n \in {0, 10} \/ n >= HeatCols - 1}

\* a wave-height series of n samples, each one its own hour number
WaveRun(n) == List([i \in 1..n |-> Num(i)])

HeatWaves == {{}} \cup {{<<"wave_height", m>>} : m \in {WaveRun(n) : n \in SeriesLens} \cup {None}}

HeatTimes ==
    {{}} \cup {{<<"time", List(ts)>>} :
                ts \in {<<>>, <<Str("2024-01-01T00:00"), Str("2024-01-01T01:00")>>,
                         <<Str("2024-01-01T00:00"), Str("bad")>>}}

HeatRecords ==
    {None, Dict(<<>>), DictOf({<<"hourly", None>>})}
    \cup {DictOf({<<"hourly", DictOf(t \cup w)>>}) : t \in HeatTimes, w \in HeatWaves}

\* the spots picked in the sidebar, in the order they were picked
SelectedSpots == <<"Swamis", "Ocean Beach", "Blacks Beach", "Cardiff Reef">>

\* every mapping of the first n picked spots, n up to MaxPresent
HeatSpotsData ==
    {Dict([i \in DOMAIN recs |-> <<SelectedSpots[i], recs[i]>>]) :
        recs \in UNION {[1..n -> HeatRecords] : n \in 0..MaxPresent}}

InitHeat ==
    /\ pc = "heat_guard"
    /\ exc = "none"
    /\ result = Unused
    /\ spots_data \in HeatSpotsData
    /\ HeatIdle
    /\ user_prefs = Unused
    /\ combined_data = Unused
    /\ current_wave_height = Unused
    /\ current_wind_speed = Unused
    /\ score = 0
    /\ MergeIdle
    /\ TideIdle
    /\ WindIdle

NextHeat == HeatGuard \/ HeatLabels \/ HeatRow \/ HeatFinish

SpecHeat == InitHeat /\ [][NextHeat]_vars

-----------------------------------------------------------------------------
(* create_wind_rose_diagram *)

\* zip(a, b): the pairs up to the shorter length
Zip(a, b) == [i \in 1..Min(Len(a), Len(b)) |-> <<a[i], b[i]>>]

BothOrOneMissing(pair) == pair[1] # None \/ pair[2] # None

\* `d is not None and s is not None`
BothPresent(pair) == pair[1] # None /\ pair[2] # None

\* the largest value of a non-empty sequence of numbers
MaxOf(speeds) ==
    (CHOOSE i \in DOMAIN speeds : \A j \in DOMAIN speeds : speeds[j].val <= speeds[i].val)

WindGuard ==
    /\ pc = "wind_guard"
    /\ LET has_d == Bind(GetKey(combined_data, "hourly"),
                        LAMBDA h : In("wind_direction_10m", h))
           has_s == Bind(GetKey(combined_data, "hourly"),
                        LAMBDA h : In("wind_speed_10m", h))
       IN  IF ~Truthy(combined_data) \/ ~Contains(combined_data, "hourly")
           THEN pc' = "done" /\ result' = None /\ exc' = exc
           ELSE IF has_d.exc # "none"
           THEN pc' = "raised" /\ result' = result /\ exc' = has_d.exc
           ELSE IF ~has_d.val \/ ~has_s.val
           THEN pc' = "done" /\ result' = None /\ exc' = exc
           ELSE pc' = "wind_slice" /\ result' = result /\ exc' = exc
    /\ UNCHANGED <<scoreVars, recVars, mergeVars, tideVars, heatVars, windVars>>

\* the two slices [:24]
WindSlice ==
    /\ pc = "wind_slice"
    /\ LET d == Slice(combined_data.val.hourly.val.wind_direction_10m, HeatCols)
           s == Slice(combined_data.val.hourly.val.wind_speed_10m, HeatCols)
       IN  IF d.exc # "none"
           THEN pc' = "raised" /\ exc' = d.exc
                /\ UNCHANGED <<wind_directions, wind_speeds>>
           ELSE IF s.exc # "none"
           THEN pc' = "raised" /\ exc' = s.exc
                /\ wind_directions' = d.val /\ wind_speeds' = wind_speeds
           ELSE pc' = "wind_filter" /\ exc' = exc
                /\ wind_directions' = d.val /\ wind_speeds' = s.val
    /\ UNCHANGED <<result, valid_data, scoreVars, recVars, mergeVars, tideVars, heatVars>>

\* the filter over the zipped slices and the test that follows it
WindFilter ==
    /\ pc = "wind_filter"
    /\ valid_data' = List(SelectSeq(Zip(wind_directions.val, wind_speeds.val), BothPresent))
    /\ IF ~Truthy(valid_data')
       THEN pc' = "done" /\ result' = None
       ELSE pc' = "wind_finish" /\ result' = result
    /\ UNCHANGED <<exc, wind_directions, wind_speeds,
                   scoreVars, recVars, mergeVars, tideVars, heatVars>>

\* directions, speeds = zip(*valid_data), and the figure over them
WindFinish ==
    /\ pc = "wind_finish"
    /\ LET directions == [i \in DOMAIN valid_data.val |-> valid_data.val[i][1]]
           speeds == [i \in DOMAIN valid_data.val |-> valid_data.val[i][2]]
       IN  result' = [type |-> "figure",
                      val |-> [r |-> speeds, theta |-> directions,
                               range |-> <<0, speeds[MaxOf(speeds)].val + 5>>]]
    /\ pc' = "done"
    /\ UNCHANGED <<exc, scoreVars, recVars, mergeVars, tideVars, heatVars, windVars>>

\* how samples go missing in a series drawn: none, all, every 2nd, every 3rd
Gaps == 0..3

Missing(i, gap) == gap > 0 /\ i % gap = 0

\* a direction series of n samples, 15 degrees on per hour
DirectionRun(n, gap) ==
    List([i \in 1..n |-> IF Missing(i, gap) THEN None ELSE Num((15 * i) % 360)])

\* a speed series of n samples, each one its own hour number
SpeedRun(n, gap) ==
    List([i \in 1..n |-> IF Missing(i, gap) THEN None ELSE Num(i)])

WindRoseDirections ==
    {{}} \cup {{<<"wind_direction_10m", m>>} :
                m \in {DirectionRun(n, g) : n \in SeriesLens, g \in Gaps} \cup {None}}

WindRoseSpeeds ==
    {{}} \cup {{<<"wind_speed_10m", m>>} :
                m \in {SpeedRun(n, g) : n \in SeriesLens, g \in Gaps} \cup {None}}

WindRoseRecords ==
    {None, Dict(<<>>), DictOf({<<"daily", Dict(<<>>)>>}), DictOf({<<"hourly", None>>})}
    \cup {DictOf({<<"hourly", DictOf(d \cup sp)>>}) :
            d \in WindRoseDirections, sp \in WindRoseSpeeds}

InitWind ==
    /\ pc = "wind_guard"
    /\ exc = "none"
    /\ result = Unused
    /\ combined_data \in WindRoseRecords
    /\ WindIdle
    /\ user_prefs = Unused
    /\ current_wave_height = Unused
    /\ current_wind_speed = Unused
    /\ score = 0
    /\ spots_data = Unused
    /\ MergeIdle
    /\ TideIdle
    /\ HeatIdle

NextWind == WindGuard \/ WindSlice \/ WindFilter \/ WindFinish

SpecWind == InitWind /\ [][NextWind]_vars

-----------------------------------------------------------------------------
(* The three analytics builders, any one of them called *)

InitAnalytics == InitHeat \/ InitWind \/ InitTide

NextAnalytics == NextHeat \/ NextWind \/ NextTide

SpecAnalytics == InitAnalytics /\ [][NextAnalytics]_vars

-----------------------------------------------------------------------------
(* Properties of calculate_surf_score *)

Skill == user_prefs.val.skill_level.val

HasHourly(data) ==
    /\ data.type = "dict"
    /\ "hourly" \in DOMAIN data.val
    /\ data.val.hourly.type = "dict"

\* the metric is a series with a sample at index 0
HasFirst(data, key) ==
    /\ HasHourly(data)
    /\ key \in DOMAIN data.val.hourly.val
    /\ data.val.hourly.val[key].type = "list"
    /\ Len(data.val.hourly.val[key].val) > 0

First(data, key) == data.val.hourly.val[key].val[1]

WaveIsNumber == HasFirst(combined_data, "wave_height")
                /\ First(combined_data, "wave_height").type = "number"

WaveHeight == First(combined_data, "wave_height").val

\* no sample at index 0 of wave_height: metric missing or null, series
\* empty, or a null first sample
WaveSampleAbsent ==
    /\ HasHourly(combined_data)
    /\ \/ ~HasFirst(combined_data, "wave_height")
       \/ First(combined_data, "wave_height") = None

\* C1: calculate_surf_score never raises; it returns an integer in 0..100,
\* and 0 when the record, its hourly section or the index-0 wave-height
\* sample is absent.
C1_FailsSoft ==
    /\ pc # "raised"
    /\ exc = "none"
    /\ pc = "done" =>
         /\ result.type = "number"
         /\ result.val \in 0..100
         /\ (combined_data = None \/ ~HasHourly(combined_data) \/ WaveSampleAbsent)
              => result.val = 0

\* a record with a non-numeric first wave-height sample has been scored 0
C1_Witness ==
    /\ pc = "done"
    /\ HasFirst(combined_data, "wave_height")
    /\ First(combined_data, "wave_height") = Str("n/a")
    /\ result = Num(0)

\* the tiers as the specification states them, Low skill on [1,3)
StatedWaveTier(skill, h) ==
    CASE skill = "Low" ->
           IF HalfFt(1) <= h /\ h < HalfFt(3) THEN 40
           ELSE IF h < HalfFt(1) THEN 20 ELSE 0
      [] skill = "Medium" ->
           IF HalfFt(2) <= h /\ h <= HalfFt(6) THEN 40
           ELSE IF HalfFt(1) <= h /\ h < HalfFt(2) THEN 25 ELSE 0
      [] skill = "High" ->
           IF h >= HalfFt(4) THEN 40
           ELSE IF HalfFt(2) <= h /\ h < HalfFt(4) THEN 30 ELSE 0

\* the same tiers with Low skill on the closed interval [1,3]
AmendedWaveTier(skill, h) ==
    IF skill = "Low" /\ h = HalfFt(3) THEN 40 ELSE StatedWaveTier(skill, h)

\* C2 as stated: the wave-height contribution follows the stated tiers, so
\* Low skill at exactly 3 ft contributes 0.
C2_StatedTiers ==
    pc = "score_wind" => score = StatedWaveTier(Skill, WaveHeight)

\* C2 (amended): the wave-height contribution is, for Low skill, 40 if
\* 1 <= h <= 3, 20 if h < 1, else 0; for Medium skill, 40 if 2 <= h <= 6,
\* 25 if 1 <= h < 2, else 0; for High skill, 40 if h >= 4, 30 if
\* 2 <= h < 4, else 0; it is always one of 0, 20, 25, 30, 40.
C2_WaveTiers ==
    pc = "score_wind" =>
        /\ score = AmendedWaveTier(Skill, WaveHeight)
        /\ score \in {0, 20, 25, 30, 40}

\* Low skill at exactly 3 ft has contributed 40
C2_Witness ==
    /\ pc = "score_wind"
    /\ Skill = "Low"
    /\ WaveHeight = HalfFt(3)
    /\ score = 40

WindIsNumber == HasFirst(combined_data, "wind_speed_10m")
                /\ First(combined_data, "wind_speed_10m").type = "number"

\* the three ways the claim lists for the index-0 wind sample to be absent
WindMetricMissing == "wind_speed_10m" \notin DOMAIN combined_data.val.hourly.val
WindSeriesEmpty == /\ ~WindMetricMissing
                   /\ combined_data.val.hourly.val.wind_speed_10m = List(<<>>)
WindFirstNull == HasFirst(combined_data, "wind_speed_10m")
                 /\ First(combined_data, "wind_speed_10m") = None

StatedWindTier ==
    IF WindIsNumber
    THEN LET w == First(combined_data, "wind_speed_10m").val IN
         IF w < 10 THEN 30 ELSE IF w < 15 THEN 20 ELSE 5
    ELSE 15

\* C3: with a numeric index-0 wave height the score is wave sub-score +
\* wind sub-score + 10, the wind sub-score being 30, 20 or 5 by speed and
\* a flat 15 when the index-0 wind sample is absent (metric missing, series
\* empty or first sample null).
C3_ScoreSum ==
    (/\ pc = "done"
     /\ WaveIsNumber
     /\ WindIsNumber \/ WindMetricMissing \/ WindSeriesEmpty \/ WindFirstNull)
    => result = Num(AmendedWaveTier(Skill, WaveHeight) + StatedWindTier + 10)

-----------------------------------------------------------------------------
(* Properties of recommend_surf_spots *)

Recs == result.val

\* position of a name in the registry
RegistryIndex(name) == CHOOSE i \in DOMAIN SD_SURF_SPOTS : SD_SURF_SPOTS[i].name = name

\* C4: recommend_surf_spots returns exactly one recommendation per
\* registered spot, whatever the records mapping holds, and a registered
\* spot missing from the mapping gets surf_score 0.
C4_OnePerSpot ==
    /\ pc # "raised"
    /\ pc = "done" =>
         /\ Len(Recs) = Len(SD_SURF_SPOTS)
         /\ \A i \in DOMAIN SD_SURF_SPOTS :
              /\ Cardinality({j \in DOMAIN Recs : Recs[j].spot = SD_SURF_SPOTS[i].name}) = 1
              /\ \A j \in DOMAIN Recs :
                   (/\ Recs[j].spot = SD_SURF_SPOTS[i].name
                    /\ SD_SURF_SPOTS[i].name \notin DOMAIN spots_data.val)
                   => Recs[j].surf_score = 0

\* a mapping holding an unregistered name and an absent record, with other
\* registered spots missing, has been answered
C4_Witness ==
    /\ pc = "done"
    /\ Unregistered \in DOMAIN spots_data.val
    /\ \E n \in SpotNames : n \in DOMAIN spots_data.val /\ spots_data.val[n] = None
    /\ \E n \in SpotNames : n \notin DOMAIN spots_data.val
    /\ Len(Recs) = 7

\* C5: the result is ordered by composite score descending, and spots of
\* equal score keep their registry order.
C5_StableDescending ==
    pc = "done" =>
        \A i, j \in DOMAIN Recs :
            i < j =>
                /\ Recs[i].score >= Recs[j].score
                /\ Recs[i].score = Recs[j].score
                     => RegistryIndex(Recs[i].spot) < RegistryIndex(Recs[j].spot)

\* a later registered spot has overtaken an earlier one while two spots of
\* equal score stand next to each other
C5_Witness ==
    /\ pc = "done"
    /\ \E i \in 1..(Len(Recs) - 1) : Recs[i].score = Recs[i + 1].score
    /\ \E i \in 1..(Len(Recs) - 1) :
          /\ Recs[i].score > Recs[i + 1].score
          /\ RegistryIndex(Recs[i].spot) > RegistryIndex(Recs[i + 1].spot)

\* the record recommend_surf_spots hands to calculate_surf_score for a spot
RecordOf(name) ==
    IF name \in DOMAIN spots_data.val THEN spots_data.val[name] ELSE None

Bonus(flag, n) == IF flag THEN n ELSE 0

\* C6: every recommendation carries break_match, board_match and
\* skill_match as defined from the preferences and the registry entry,
\* surf_score = calculate_surf_score(record, prefs) and the unclamped
\* score = surf_score + 20*break_match + 15*board_match + 25*skill_match;
\* {Medium, Funboard, Any} with Swamis at 3.0 ft and wind 8 gives 80 and 140.
C6_CompositeScore ==
    pc = "done" =>
        /\ \A j \in DOMAIN Recs :
             LET r == Recs[j]
                 info == SD_SURF_SPOTS[RegistryIndex(r.spot)]
             IN /\ r.break_match = (\/ user_prefs.val.break_type.val = "Any"
                                    \/ user_prefs.val.break_type.val = info.break_type)
                /\ r.board_match = (user_prefs.val.board_length.val \in info.ideal_boards)
                /\ r.skill_match = (user_prefs.val.skill_level.val = info.skill_level)
                /\ r.surf_score = CalculateSurfScore(RecordOf(r.spot), user_prefs).val
                /\ r.score = r.surf_score + Bonus(r.break_match, 20)
                             + Bonus(r.board_match, 15) + Bonus(r.skill_match, 25)
        /\ (/\ user_prefs = Prefs("Medium", "Funboard", "Any")
            /\ RecordOf("Swamis") = ScenarioRecord)
           => \A j \in DOMAIN Recs :
                Recs[j].spot = "Swamis" => Recs[j].surf_score = 80 /\ Recs[j].score = 140

\* the scenario has been answered: Swamis scores 140, above 100
C6_Witness ==
    /\ pc = "done"
    /\ user_prefs = Prefs("Medium", "Funboard", "Any")
    /\ RecordOf("Swamis") = ScenarioRecord
    /\ \E j \in DOMAIN Recs : Recs[j].spot = "Swamis" /\ Recs[j].score = 140

-----------------------------------------------------------------------------
(* Properties of combine_marine_weather_data *)

\* the contents of the record x refers to in heap h, sections included
Deep(h, x) ==
    IF x = None THEN None
    ELSE LET d == h[x.val].val
         IN  Dict([k \in DOMAIN d |-> IF d[k].type = "ref" THEN h[d[k].val] ELSE d[k]])

\* the metrics of the hourly section of x, none if it has no such section
Metrics(h, x) ==
    IF x # None /\ Contains(h[x.val], "hourly")
    THEN h[h[x.val].val.hourly.val].val
    ELSE <<>>

\* C7: combine_marine_weather_data leaves the contents of both inputs as
\* they were before the call.
C7_InputsUntouched ==
    pc = "done" =>
        /\ Deep(heap, marine_data) = Deep(entry_heap, marine_data)
        /\ Deep(heap, weather_data) = Deep(entry_heap, weather_data)

\* the wind metrics the weather record carries
Carried ==
    {"wind_speed_10m", "wind_direction_10m", "wind_gusts_10m"}
    \cap DOMAIN Metrics(entry_heap, weather_data)

\* the result is marine as it was at entry, with the carried wind metrics
\* laid over its hourly section
MergedAsStated ==
    /\ result # None
    /\ \A k \in (DOMAIN heap[result.val].val \cup DOMAIN entry_heap[marine_data.val].val)
                 \ {"hourly"} :
          /\ k \in DOMAIN heap[result.val].val
          /\ k \in DOMAIN entry_heap[marine_data.val].val
          /\ heap[result.val].val[k] = entry_heap[marine_data.val].val[k]
    /\ LET M == Metrics(entry_heap, marine_data)
           W == Metrics(entry_heap, weather_data)
       IN  Metrics(heap, result)
             = [k \in DOMAIN M \cup Carried |-> IF k \in Carried THEN W[k] ELSE M[k]]
    /\ (weather_data = None \/ ~Contains(entry_heap[weather_data.val], "hourly"))
         => Deep(heap, result) = Deep(entry_heap, marine_data)

MarineEmpty == marine_data # None /\ DOMAIN entry_heap[marine_data.val].val = {}

\* C8 as stated: for every present marine record the result is marine with
\* the wind metrics weather carries laid over its hourly section.
C8_StatedMerge ==
    (pc = "done" /\ marine_data # None) => MergedAsStated

\* C8 (amended): for every present marine record with at least one section
\* the result equals marine except in its hourly section, where each of
\* wind_speed_10m, wind_direction_10m, wind_gusts_10m that weather carries
\* is set to weather's series; nothing else is added, removed or changed,
\* and without a weather hourly section the result equals marine.
C8_Merge ==
    (pc = "done" /\ marine_data # None /\ ~MarineEmpty) => MergedAsStated

\* a marine wind_speed_10m has been overwritten while weather's
\* temperature_2m was left behind
C8_Witness ==
    /\ pc = "done"
    /\ marine_data # None
    /\ "wind_speed_10m" \in DOMAIN Metrics(entry_heap, marine_data)
    /\ {"wind_speed_10m", "temperature_2m"} \subseteq DOMAIN Metrics(entry_heap, weather_data)
    /\ Metrics(heap, result).wind_speed_10m = List(<<Num(12)>>)
    /\ "temperature_2m" \notin DOMAIN Metrics(heap, result)

\* C9 as stated: the result is absent exactly when marine is absent.
C9_StatedAbsent ==
    pc = "done" => (result = None <=> marine_data = None)

\* C9 (amended): the result is absent exactly when marine is absent or has
\* no sections at all; every marine record with a section yields a present
\* result.
C9_Absent ==
    pc = "done" => (result = None <=> (marine_data = None \/ MarineEmpty))

\* an empty marine record has been answered with absent
C9_Witness ==
    /\ pc = "done"
    /\ MarineEmpty
    /\ weather_data # None
    /\ result = None

-----------------------------------------------------------------------------
(* Properties of create_tide_chart *)

\* both fields of the entry are there and have the expected format
Parses(p) ==
    /\ "t" \in DOMAIN p.val
    /\ p.val.t \in {Str("2024-01-01 00:00"), Str("2024-01-01 01:00")}
    /\ "v" \in DOMAIN p.val
    /\ p.val.v \in {Str("3.2"), Str("3.5")}

TimeOf(p) == [type |-> "datetime", val |-> IF p.val.t = Str("2024-01-01 00:00") THEN 0 ELSE 60]
HeightOf(p) == Num(IF p.val.v = Str("3.2") THEN 32 ELSE 35)

\* the entries the loop has passed
Passed == SubSeq(tide_data.val.predictions.val, 1, p_i - 1)

\* C10: after any number of entries the times and heights are exactly the
\* entries whose timestamp and value both parse, in input order, as aligned
\* pairs of equal length; no output when no entry parses.
C10_AlignedPairs ==
    /\ pc \in {"tide_entry", "tide_finish"} =>
         LET good == SelectSeq(Passed, Parses)
         IN  /\ Len(times.val) = Len(heights.val)
             /\ times.val = [i \in DOMAIN good |-> TimeOf(good[i])]
             /\ heights.val = [i \in DOMAIN good |-> HeightOf(good[i])]
    /\ (/\ pc = "done"
        /\ Contains(tide_data, "predictions")
        /\ SelectSeq(tide_data.val.predictions.val, Parses) = <<>>)
       => result = None

-----------------------------------------------------------------------------
(* Properties of create_wave_height_heatmap *)

Produced == pc = "done" /\ result.type = "figure"

\* the record of the i-th entry has an hourly wave_height metric
HasWave(i) ==
    LET data == Items[i][2]
    IN  /\ data.type = "dict"
        /\ "hourly" \in DOMAIN data.val
        /\ data.val.hourly.type = "dict"
        /\ "wave_height" \in DOMAIN data.val.hourly.val

\* the positions of the entries that have the metric, in insertion order
WithWave == SelectSeq([i \in DOMAIN Items |-> i], HasWave)

\* C11: when the heatmap is produced, its grid has one row per record with
\* an hourly wave_height metric, in insertion order and parallel to the spot
\* names; every row has 24 values, the first min(n, 24) samples of the
\* series followed by zeros.
C11_GridRows ==
    Produced =>
        LET grid == result.val.img.val
            names == result.val.y.val
        IN  /\ Len(grid) = Len(WithWave)
            /\ Len(names) = Len(WithWave)
            /\ \A k \in DOMAIN grid :
                 LET series == Items[WithWave[k]][2].val.hourly.val.wave_height.val
                     n == IF Len(series) < 24 THEN Len(series) ELSE 24
                 IN  /\ names[k] = Str(Items[WithWave[k]][1])
                     /\ Len(grid[k].val) = 24
                     /\ \A j \in 1..24 :
                          grid[k].val[j] = IF j <= n THEN series[j] ELSE Num(0)

\* a grid of a 10-sample row with 14 trailing zeros below a row cut from 25
\* samples
C11_Witness ==
    /\ Produced
    /\ Len(result.val.img.val) = 2
    /\ Len(Items[1][2].val.hourly.val.wave_height.val) = 25
    /\ Len(Items[2][2].val.hourly.val.wave_height.val) = 10
    /\ result.val.img.val[2].val[10] = Num(10)
    /\ \A j \in 11..24 : result.val.img.val[2].val[j] = Num(0)

-----------------------------------------------------------------------------
(* Properties of the analytics builders *)

\* C12: none of create_wave_height_heatmap, create_wind_rose_diagram and
\* create_tide_chart ever raises on missing or malformed data; each either
\* produces output or returns absent.
C12_NeverRaises ==
    /\ pc # "raised"
    /\ pc = "done" => result = None \/ result.type = "figure"

-----------------------------------------------------------------------------
(* Properties of create_wind_rose_diagram *)

WindMetricsThere ==
    /\ HasHourly(combined_data)
    /\ {"wind_direction_10m", "wind_speed_10m"} \subseteq DOMAIN combined_data.val.hourly.val

DirectionSeries == combined_data.val.hourly.val.wind_direction_10m.val
SpeedSeries == combined_data.val.hourly.val.wind_speed_10m.val

\* the indices below 24 and below both lengths at which neither value is
\* missing, in index order
Surviving ==
    LET n == IF Len(DirectionSeries) < Len(SpeedSeries)
             THEN Len(DirectionSeries) ELSE Len(SpeedSeries)
        m == IF n < 24 THEN n ELSE 24
    IN  SelectSeq([i \in 1..m |-> i],
                  LAMBDA i : DirectionSeries[i] # None /\ SpeedSeries[i] # None)

\* C13: the wind sample set is exactly the (direction, speed) pairs at
\* indices below 24 and below both lengths where neither value is missing,
\* in index order, as two parallel sequences of equal length at most 24; no
\* output if the record, its hourly section or either metric is absent, or
\* if no pair survives.
C13_SurvivingPairs ==
    pc = "done" =>
        IF combined_data = None \/ ~WindMetricsThere
        THEN result = None
        ELSE IF Surviving = <<>>
        THEN result = None
        ELSE /\ result.type = "figure"
             /\ Len(result.val.theta) = Len(result.val.r)
             /\ Len(result.val.r) <= 24
             /\ result.val.theta = [k \in DOMAIN Surviving |-> DirectionSeries[Surviving[k]]]
             /\ result.val.r = [k \in DOMAIN Surviving |-> SpeedSeries[Surviving[k]]]

\* 25 directions and 25 speeds with gaps in both have left fewer than 24
\* pairs, the last of them from hour 23
C13_Witness ==
    /\ pc = "done"
    /\ result.type = "figure"
    /\ Len(DirectionSeries) = 25
    /\ Len(SpeedSeries) = 25
    /\ \E i \in 1..24 : DirectionSeries[i] = None /\ SpeedSeries[i] # None
    /\ \E i \in 1..24 : SpeedSeries[i] = None /\ DirectionSeries[i] # None
    /\ Len(result.val.r) < 24
    /\ result.val.r[Len(result.val.r)] = Num(23)

-----------------------------------------------------------------------------
(* Zero scores of calculate_surf_score *)

\* the index-0 wind sample can be read and scored: the metric is missing,
\* or its first sample is a number or null
WindScorable == WindMetricMissing \/ WindIsNumber \/ WindFirstNull

\* the call gets as far as scoring a numeric index-0 wave height
Scored == WaveIsNumber /\ WindScorable

\* the fail-soft path: absent record, absent hourly section, or a missing or
\* malformed wave or wind sample
FailSoft ==
    \/ combined_data = None
    \/ ~HasHourly(combined_data)
    \/ ~WaveIsNumber
    \/ ~WindScorable

\* C14: calculate_surf_score returns 0 only on the fail-soft path; when it
\* scores a numeric index-0 wave height the result lies in 15..80 and is the
\* unclamped sum.
C14_ZeroOnlyFailSoft ==
    /\ pc = "score_return" => score + 10 < 100
    /\ pc = "done" =>
         /\ result.val = 0 => FailSoft
         /\ (~FailSoft) =>
              /\ result.val \in 15..80
              /\ result.val = score + 10

\* both ends of the scored range have been returned: 15 for surf outside
\* the tiers in strong wind
C14_Witness ==
    /\ pc = "done"
    /\ Scored
    /\ WindIsNumber
    /\ result = Num(15)
    /\ score = 5

=============================================================================
